---------------------------- MODULE Spec2Model ----------------------------
(***************************************************************************)
(* Worker WebSocket channel (WorkerWSChannel): the facade Start/Stop/Send, *)
(* the handshake connectAndAuthenticate, and the read, ping and reconnect  *)
(* loops that share one connection handle, one identity and one context.   *)
(*                                                                         *)
(* Strings that the code trims or compares are sequences of one-character  *)
(* strings.  Connections are the pointers 1..MaxConns, None is nil.  A     *)
(* context is the number of the Start call that made it, 0 is "no context  *)
(* yet" (c.ctx and c.cancel are nil).                                      *)
(***************************************************************************)
EXTENDS Integers, Sequences, FiniteSets, TLC

\* ------------------------------------------------------------- bounds
MaxConns == 2
MaxStarts == 2
MaxStopsInARow == 2
MaxChatLen == 4
MaxInterval == 6
AuthWindow == 2

Conns == 1..MaxConns
None == 0
Epochs == 1..MaxStarts
StartProc == 0
Procs == {StartProc} \cup Epochs

\* ------------------------------------------------------------- strings
SP == " "
Employee == <<"e", "m", "p", "l", "o", "y", "e", "e">>
Boss == <<"b", "o", "s", "s">>
Admin == <<"a", "d", "m", "i", "n">>

RECURSIVE TrimLeft(_)
TrimLeft(s) ==
  IF s = <<>> THEN s
  ELSE IF Head(s) = SP THEN TrimLeft(Tail(s)) ELSE s

RECURSIVE TrimRight(_)
TrimRight(s) ==
  IF s = <<>> THEN s
  ELSE IF s[Len(s)] = SP THEN TrimRight(SubSeq(s, 1, Len(s) - 1)) ELSE s

TrimSpace(s) == TrimRight(TrimLeft(s))

\* ------------------------------------------------------------- configuration
RECURSIVE cleanTags(_)
cleanTags(tags) ==
  IF tags = <<>> THEN <<>>
  ELSE IF TrimSpace(Head(tags)) # <<>>
       THEN <<TrimSpace(Head(tags))>> \o cleanTags(Tail(tags))
       ELSE cleanTags(Tail(tags))

\* A validation that compares the trimmed role.
validateConfigTrimmedRole(cfg) ==
  IF TrimSpace(cfg.Address) = <<>> THEN "address is required"
  ELSE IF TrimSpace(cfg.Role) = <<>> THEN "role is required"
  ELSE IF TrimSpace(cfg.Role) # Employee /\ TrimSpace(cfg.Role) # Boss
       THEN "role must be boss or employee"
  ELSE IF TrimSpace(cfg.Name) = <<>> THEN "name is required"
  ELSE IF Len(cleanTags(cfg.Tags)) = 0 THEN "tags requires at least one non-empty tag"
  ELSE ""

validateConfig(cfg) ==
  IF TrimSpace(cfg.Address) = <<>> THEN "address is required"
  ELSE IF TrimSpace(cfg.Role) = <<>> THEN "role is required"
  ELSE IF cfg.Role # Employee /\ cfg.Role # Boss THEN "role must be boss or employee"
  ELSE IF TrimSpace(cfg.Name) = <<>> THEN "name is required"
  ELSE IF Len(cleanTags(cfg.Tags)) = 0 THEN "tags requires at least one non-empty tag"
  ELSE ""

reconnectInterval(cfg) ==
  IF cfg.ReconnectInterval <= 0 THEN 0
  ELSE IF cfg.ReconnectInterval < 5 THEN 5
  ELSE cfg.ReconnectInterval

\* A ping interval without the default: 0 stays 0.
pingIntervalNoDefault(cfg) ==
  IF cfg.PingInterval <= 0 THEN 0
  ELSE IF cfg.PingInterval < 5 THEN 5
  ELSE cfg.PingInterval

pingInterval(cfg) ==
  LET sec == IF cfg.PingInterval <= 0 THEN 15 ELSE cfg.PingInterval
  IN IF sec < 5 THEN 5 ELSE sec

Addresses == { <<>>, <<SP>>, <<"w", "s">> }
Roles == { <<>>, <<SP>>, Employee, Boss, Admin, <<SP>> \o Boss }
Names == { <<>>, <<SP>>, <<"n">> }
TagLists == { <<>>, << <<SP>> >>, << <<>>, <<SP, "t">> >> }

\* The reconnect interval is tied to the role so that each role is explored
\* with one interval: employee with reconnection disabled, the others with a
\* configured 3 seconds (resolved to the floor of 5).
Configs ==
  { cfg \in [Address : Addresses, Role : Roles, Name : Names, Tags : TagLists,
             AuthKey : {<<>>}, ReconnectInterval : {0, 3}, PingInterval : {0},
             AllowFrom : {{}}] :
      cfg.ReconnectInterval = (IF cfg.Role = Employee THEN 0 ELSE 3) }

\* ------------------------------------------------------------- identity
NoIdentity == [ID |-> "", Key |-> ""]
\* The {id, key} pairs a peer may put into an auth_ok frame.
AuthOKPairs ==
  { [ID |-> "w1", Key |-> "k1"], [ID |-> "w2", Key |-> ""], [ID |-> "", Key |-> "k1"] }
\* Contents of the identity file: kind "absent" (no file), "malformed" (not
\* JSON) or "json" with the two fields it decodes to.
FileOf(id) == [kind |-> "json", ID |-> id.ID, Key |-> id.Key]
InitFiles ==
  { [kind |-> "absent", ID |-> "", Key |-> ""],
    [kind |-> "malformed", ID |-> "", Key |-> ""],
    FileOf([ID |-> "w1", Key |-> "k1"]),
    FileOf([ID |-> "w1", Key |-> ""]) }

\* The identity held after loadIdentity on file f, starting from the empty one.
loadIdentity(f) ==
  IF f.kind # "json" THEN NoIdentity
  ELSE IF f.ID = "" \/ f.Key = "" THEN NoIdentity
  ELSE [ID |-> f.ID, Key |-> f.Key]

\* A saveIdentity that writes whatever identity is held.
saveIdentityAlways(f, id) == FileOf(id)

\* The file after saveIdentity with held identity id (when the write succeeds).
saveIdentity(f, id) ==
  IF id.ID = "" \/ id.Key = "" THEN f ELSE FileOf(id)

\* A buildAuthMessage that includes the identity as soon as the id is non-empty.
buildAuthMessageIdOnly(cfg, id) ==
  LET base == [type |-> "auth", role |-> cfg.Role, name |-> cfg.Name,
               tags |-> cleanTags(cfg.Tags), meta |-> [client |-> "mimiclaw"]]
      withKey == IF TrimSpace(cfg.AuthKey) # <<>>
                 THEN ("authkey" :> cfg.AuthKey) @@ base ELSE base
  IN IF id.ID # ""
     THEN ("identity" :> [id |-> id.ID, key |-> id.Key]) @@ withKey
     ELSE withKey

buildAuthMessage(cfg, id) ==
  LET base == [type |-> "auth", role |-> cfg.Role, name |-> cfg.Name,
               tags |-> cleanTags(cfg.Tags), meta |-> [client |-> "mimiclaw"]]
      withKey == IF TrimSpace(cfg.AuthKey) # <<>>
                 THEN ("authkey" :> cfg.AuthKey) @@ base ELSE base
  IN IF id.ID # "" /\ id.Key # ""
     THEN ("identity" :> [id |-> id.ID, key |-> id.Key]) @@ withKey
     ELSE withKey

\* ------------------------------------------------------------- resolveTarget
Comma == ","
Star == <<"*">>
All == <<"a", "l", "l">>

\* Simple case folding of one character, as strings.EqualFold folds it.
Fold(ch) == CASE ch = "A" -> "a" [] ch = "L" -> "l" [] OTHER -> ch

EqualFold(s, t) == Len(s) = Len(t) /\ \A i \in 1..Len(s) : Fold(s[i]) = Fold(t[i])

Contains(s, ch) == \E i \in 1..Len(s) : s[i] = ch

\* strings.Split(s, sep): the pieces between the separators, empty pieces included.
RECURSIVE SplitFrom(_, _, _)
SplitFrom(s, sep, cur) ==
  IF s = <<>> THEN <<cur>>
  ELSE IF Head(s) = sep THEN <<cur>> \o SplitFrom(Tail(s), sep, <<>>)
  ELSE SplitFrom(Tail(s), sep, Append(cur, Head(s)))

Split(s, sep) == SplitFrom(s, sep, <<>>)

\* The result is a string (kind "string", in str) or a []string (kind "list", in
\* list).
Scalar(t) == [kind |-> "string", str |-> t, list |-> <<>>]
List(ts) == [kind |-> "list", str |-> <<>>, list |-> ts]

\* A resolveTarget that does not trim the parts of a comma list.
resolveTargetRawParts(chatID) ==
  LET t == TrimSpace(chatID) IN
  IF t = <<>> THEN Scalar(Star)
  ELSE IF t = Star \/ EqualFold(t, All) THEN Scalar(t)
  ELSE IF Contains(t, Comma)
       THEN LET targets == SelectSeq(Split(t, Comma), LAMBDA q : q # <<>>) IN
            IF Len(targets) = 1 THEN Scalar(targets[1])
            ELSE IF Len(targets) > 1 THEN List(targets)
            ELSE Scalar(t)
  ELSE Scalar(t)

resolveTarget(chatID) ==
  LET t == TrimSpace(chatID) IN
  IF t = <<>> THEN Scalar(Star)
  ELSE IF t = Star \/ EqualFold(t, All) THEN Scalar(t)
  ELSE IF Contains(t, Comma)
       THEN LET parts == Split(t, Comma)
                trimmed == [i \in 1..Len(parts) |-> TrimSpace(parts[i])]
                targets == SelectSeq(trimmed, LAMBDA q : q # <<>>) IN
            IF Len(targets) = 1 THEN Scalar(targets[1])
            ELSE IF Len(targets) > 1 THEN List(targets)
            ELSE Scalar(t)
  ELSE Scalar(t)

\* The chat ids given to resolveTarget: every string of at most MaxChatLen
\* characters over blanks, commas, the star and the letters of "all" in both cases.
ChatChars == {SP, Comma, "*", "a", "A", "l", "L"}
ChatIDs == UNION { [1..n -> ChatChars] : n \in 0..MaxChatLen }

\* The configurations and identities given to buildAuthMessage.
AuthKeys == { <<>>, <<SP>>, <<"k">>, <<SP, "k">> }
CalcConfigs ==
  { [Address |-> <<"w", "s">>, Role |-> Boss, Name |-> <<"n">>, Tags |-> << <<"t">> >>,
     AuthKey |-> k, ReconnectInterval |-> 0, PingInterval |-> 0, AllowFrom |-> {}] :
       k \in AuthKeys }
Identities == [ID : {"", "w1"}, Key : {"", "k1"}]

\* ------------------------------------------------------------- inbound frames
\* Inbound frames: json = FALSE is a frame that is not JSON; a missing field is "".
FrameTypes == {"pong", "health_report_ack", "delivery_ack", "error", "system", "bogus", ""}
SenderIDs == {"", "a", "b"}
Fallback == "worker_ws"

Frame(j, t, id, key, from, code, msg) ==
  [json |-> j, type |-> t, id |-> id, key |-> key, from |-> from, code |-> code, msg |-> msg]

\* Frames without a sender id that are not routed messages.
ControlFrames ==
  { Frame(j, t, "", "", "", "", "") : j \in BOOLEAN, t \in FrameTypes }
  \cup { Frame(TRUE, "auth_ok", ok.ID, ok.Key, "", "", "") : ok \in AuthOKPairs }
  \cup { Frame(TRUE, "auth_ok", "", "", "", "", "") }

\* Frames that carry a sender id: routed messages, and frames of the other types.
SenderFrames ==
  { Frame(TRUE, t, "", "", s, "", "") :
      t \in FrameTypes \cup {"message", "auth_ok"}, s \in SenderIDs }

InboundFrames == ControlFrames \cup SenderFrames

\* The frame a peer sends first on a new connection.
HelloFrame == Frame(TRUE, "hello", "", "", "", "", "")

\* Frames that neither end nor fail the wait for auth_ok.
UnrelatedFrames ==
  { Frame(TRUE, t, "", "", s, "", "") :
      t \in {"pong", "system", "message", "hello", ""}, s \in {"", "a"} }

\* Rejections, with and without a code and a message.
ErrorFrames ==
  { Frame(TRUE, "error", "", "", "", c, m) : c \in {"", "denied"}, m \in {"", "no"} }

\* What a peer may be seen to send while the client waits for auth_ok: unrelated
\* frames only, or unrelated frames and one kind of answer, or every frame.
AuthPeers ==
  {UnrelatedFrames}
    \cup { UnrelatedFrames \cup {f} : f \in ErrorFrames }
    \cup { UnrelatedFrames \cup {Frame(TRUE, "auth_ok", ok.ID, ok.Key, "", "", "")} :
             ok \in AuthOKPairs }
    \cup { UnrelatedFrames \cup {Frame(FALSE, "", "", "", "", "", "")} }
    \cup { InboundFrames \cup ErrorFrames }

\* handleServerMessage, case "auth_ok": the identity is replaced when id is non-empty.
UpdatesIdentity(f) == f.json /\ f.type = "auth_ok" /\ f.id # ""

\* Nothing routed, nothing delivered.
BusIdle == [routed |-> FALSE, type |-> "", from |-> "", delivered |-> <<>>]

\* BaseChannel.IsAllowed: an empty allow-list admits every sender.
IsAllowed(cfg, id) == cfg.AllowFrom = {} \/ id \in cfg.AllowFrom

\* BaseChannel.HandleMessage: one inbound message handed to the bus.
HandleMessage(senderID) == << [sender |-> senderID, chat |-> senderID] >>

\* A routing that does not ask the allow-list.
handleInboundRoutedMessageUnchecked(cfg, f) ==
  HandleMessage(IF f.from = "" THEN Fallback ELSE f.from)

\* handleInboundRoutedMessage: what it hands to the bus.
handleInboundRoutedMessage(cfg, f) ==
  LET fromID == IF f.from = "" THEN Fallback ELSE f.from IN
  IF ~IsAllowed(cfg, fromID) THEN <<>> ELSE HandleMessage(fromID)

\* A dispatch that routes every JSON frame, whatever its type.
DeliveriesAnyType(cfg, f) ==
  IF ~f.json THEN <<>> ELSE handleInboundRoutedMessage(cfg, f)

\* handleServerMessage: what the frame hands to the bus.
Deliveries(cfg, f) ==
  IF ~f.json THEN <<>>
  ELSE IF f.type = "message" THEN handleInboundRoutedMessage(cfg, f)
  ELSE <<>>

\* The record of handling frame f: frames that were neither a routed message, nor
\* delivered anything, nor named a sender leave the idle record.
Handled(cfg, f) ==
  IF (f.json /\ f.type = "message") \/ Deliveries(cfg, f) # <<>> \/ (f.json /\ f.from # "")
  THEN [routed |-> (f.json /\ f.type = "message"), type |-> f.type, from |-> f.from,
        delivered |-> Deliveries(cfg, f)]
  ELSE BusIdle

VARIABLES
  config,     \* c.config, fixed at construction
  peer,       \* the frames the peer sends on an established connection
  file,       \* the identity file
  identity,   \* c.identity
  running,    \* BaseChannel's running flag
  ctx,        \* c.ctx / c.cancel: the context of the latest Start, 0 = nil
  cancelled,  \* the contexts whose cancel() has been called
  conn,       \* c.conn, the shared handle
  connState,  \* per connection: "free", "open", "closed", "closed2" (closed twice)
  connBy,     \* which activity installed the current handle
  caller,     \* the goroutine calling Start and Stop
  hs,         \* per handshaker: the position in connectAndAuthenticate
  reconn,     \* per Start: its reconnectLoop goroutine
  ping,       \* per Start: its pingLoop goroutine
  readers,    \* per connection: its readLoop goroutine
  sender,     \* the goroutine calling Send
  lateAuthNoIdentity, \* an auth without identity was sent by an attempt begun after a commit
  writeMu,    \* c.writeMu: the goroutine holding the write lock
  bus,        \* the last routed frame and the inbound messages it handed to the bus
  calc        \* a call of resolveTarget or buildAuthMessage: argument and result

vars == <<config, peer, file, identity, running, ctx, cancelled, conn, connState, connBy,
          caller, hs, reconn, ping, readers, sender, lateAuthNoIdentity,
          writeMu, bus, calc>>

HsIdle == [pc |-> "idle", hconn |-> None, ok |-> NoIdentity, late |-> FALSE, res |-> "",
           steps |-> <<>>, timer |-> 0, code |-> "", msg |-> "", old |-> None]
LoopNone == [pc |-> "none", w |-> 0]
PingNone == [pc |-> "none", w |-> 0, wconn |-> None, last |-> "", warned |-> FALSE]
ReaderNone == [pc |-> "none", w |-> 0, born |-> 0, out |-> ""]
SenderIdle == [pc |-> "idle", called |-> FALSE, obsRunning |-> FALSE, wconn |-> None,
               wrote |-> FALSE, attempts |-> 0, res |-> ""]
CalcIdle == [fn |-> "", arg |-> <<>>, out |-> <<>>]
\* c.writeMu is free, or held by a goroutine inside writeJSONConn: <<"send", 0>>,
\* <<"ping", e>> or <<"auth", p>>.
Free == <<"free", 0>>
CallerIdle == [pc |-> "idle", lastCall |-> "", startRes |-> "", hsFailed |-> FALSE, stops |-> 0]

\* What NewWorkerWSChannel leaves at its zero value.
Constructed ==
  /\ running = FALSE
  /\ ctx = 0
  /\ cancelled = {}
  /\ conn = None
  /\ connState = [c \in Conns |-> "free"]
  /\ connBy = "none"
  /\ caller = CallerIdle
  /\ hs = [p \in Procs |-> HsIdle]
  /\ reconn = [e \in Epochs |-> LoopNone]
  /\ ping = [e \in Epochs |-> PingNone]
  /\ readers = [c \in Conns |-> ReaderNone]
  /\ sender = SenderIdle
  /\ lateAuthNoIdentity = FALSE
  /\ writeMu = Free
  /\ bus = BusIdle

Init ==
  /\ config \in Configs
  /\ peer = ControlFrames
  /\ file \in InitFiles
  /\ identity = loadIdentity(file)
  /\ calc = CalcIdle
  /\ Constructed


\* ------------------------------------------------------------- helpers
\* conn.Close(): a second Close of the same connection is recorded as "closed2".
Close(cs, c) == [cs EXCEPT ![c] = IF @ = "open" THEN "closed" ELSE "closed2"]

\* A writeJSONConn that writes without taking the write lock.
writeJSONConnNoLock(w) == writeMu' = writeMu

\* writeJSONConn: c.writeMu.Lock(), which waits while another goroutine holds it.
writeJSONConnLock(w) == writeMu = Free /\ writeMu' = w

\* writeJSONConn: the deferred c.writeMu.Unlock().
writeJSONConnUnlock == writeMu' = Free

FreeConns == { c \in Conns : connState[c] = "free" }
Min(S) == CHOOSE x \in S : \A y \in S : x <= y

\* The loops read the field c.ctx while Start writes it without synchronisation: a
\* read returns the context the goroutine last saw or any newer one up to the
\* latest written.
CtxView(w) == w..ctx

\* ------------------------------------------------------------- Start
StartValidate ==
  /\ caller.pc = "idle"
  /\ ~running
  /\ ctx < MaxStarts
  /\ IF validateConfig(config) # ""
     THEN /\ caller' = [CallerIdle EXCEPT !.lastCall = "Start", !.startRes = "config"]
          /\ UNCHANGED <<ctx, hs>>
     ELSE /\ ctx' = ctx + 1
          /\ caller' = [CallerIdle EXCEPT !.pc = "connect", !.lastCall = "Start"]
          /\ hs' = [hs EXCEPT ![StartProc] = [HsIdle EXCEPT !.pc = "dial"]]
  /\ UNCHANGED <<config, peer, file, identity, running, cancelled, conn, connState, connBy,
                 reconn, ping, readers, sender, lateAuthNoIdentity,
                 writeMu, bus, calc>>

\* Start going on to start the loops after a failed handshake although
\* reconnection is disabled.
StartAfterConnectNoReturn ==
  /\ caller.pc = "connect"
  /\ hs[StartProc].pc = "ret"
  /\ LET h == hs[StartProc] IN
     /\ hs' = [hs EXCEPT ![StartProc] = HsIdle]
     /\ connState' = IF h.res # "" /\ h.hconn # None
                     THEN [connState EXCEPT ![h.hconn] = "free"] ELSE connState
     /\ caller' = [caller EXCEPT !.pc = "spawn", !.hsFailed = (h.res # "")]
  /\ UNCHANGED <<config, peer, file, identity, running, ctx, cancelled, conn, connBy,
                 reconn, ping, readers, sender, lateAuthNoIdentity,
                 writeMu, bus, calc>>

\* Start returning every handshake error, also when reconnection is enabled.
StartAfterConnectAlwaysReturn ==
  /\ caller.pc = "connect"
  /\ hs[StartProc].pc = "ret"
  /\ LET h == hs[StartProc] IN
     /\ hs' = [hs EXCEPT ![StartProc] = HsIdle]
     /\ connState' = IF h.res # "" /\ h.hconn # None
                     THEN [connState EXCEPT ![h.hconn] = "free"] ELSE connState
     /\ IF h.res # ""
        THEN caller' = [caller EXCEPT !.pc = "idle", !.startRes = "handshake",
                                        !.hsFailed = TRUE]
        ELSE caller' = [caller EXCEPT !.pc = "spawn", !.hsFailed = FALSE]
  /\ UNCHANGED <<config, peer, file, identity, running, ctx, cancelled, conn, connBy,
                 reconn, ping, readers, sender, lateAuthNoIdentity,
                 writeMu, bus, calc>>

\* connectAndAuthenticate has returned to Start.
StartAfterConnect ==
  /\ caller.pc = "connect"
  /\ hs[StartProc].pc = "ret"
  /\ LET h == hs[StartProc] IN
     /\ hs' = [hs EXCEPT ![StartProc] = HsIdle]
     /\ connState' = IF h.res # "" /\ h.hconn # None
                     THEN [connState EXCEPT ![h.hconn] = "free"] ELSE connState
     /\ IF h.res # "" /\ reconnectInterval(config) <= 0
        THEN caller' = [caller EXCEPT !.pc = "idle", !.startRes = "handshake",
                                        !.hsFailed = TRUE]
        ELSE caller' = [caller EXCEPT !.pc = "spawn", !.hsFailed = (h.res # "")]
  /\ UNCHANGED <<config, peer, file, identity, running, ctx, cancelled, conn, connBy,
                 reconn, ping, readers, sender, lateAuthNoIdentity,
                 writeMu, bus, calc>>

StartSpawn ==
  /\ caller.pc = "spawn"
  /\ reconn' = IF reconnectInterval(config) > 0
               THEN [reconn EXCEPT ![ctx] = [pc |-> "enter", w |-> ctx]] ELSE reconn
  /\ ping' = IF pingInterval(config) > 0
             THEN [ping EXCEPT ![ctx] = [PingNone EXCEPT !.pc = "enter", !.w = ctx]] ELSE ping
  /\ caller' = [caller EXCEPT !.pc = "setrunning"]
  /\ UNCHANGED <<config, peer, file, identity, running, ctx, cancelled, conn, connState, connBy,
                 hs, readers, sender, lateAuthNoIdentity,
                 writeMu, bus, calc>>

StartSetRunning ==
  /\ caller.pc = "setrunning"
  /\ running' = TRUE
  /\ caller' = [caller EXCEPT !.pc = "idle", !.startRes = "ok"]
  /\ UNCHANGED <<config, peer, file, identity, ctx, cancelled, conn, connState, connBy,
                 hs, reconn, ping, readers, sender, lateAuthNoIdentity,
                 writeMu, bus, calc>>

\* ------------------------------------------------------------- Stop
\* A Stop that closes the held connection and forgets to drop the handle.
StopKeepsHandle ==
  /\ caller.pc = "idle"
  /\ caller.stops < MaxStopsInARow
  /\ running' = FALSE
  /\ cancelled' = IF ctx # 0 THEN cancelled \cup {ctx} ELSE cancelled
  /\ connState' = IF conn # None THEN Close(connState, conn) ELSE connState
  /\ conn' = conn
  /\ caller' = [caller EXCEPT !.lastCall = "Stop", !.stops = @ + 1]
  /\ UNCHANGED <<config, peer, file, identity, ctx, connBy, hs, reconn, ping, readers,
                 sender, lateAuthNoIdentity,
                 writeMu, bus, calc>>

Stop ==
  /\ caller.pc = "idle"
  /\ caller.stops < MaxStopsInARow
  /\ running' = FALSE
  /\ cancelled' = IF ctx # 0 THEN cancelled \cup {ctx} ELSE cancelled
  /\ connState' = IF conn # None THEN Close(connState, conn) ELSE connState
  /\ conn' = None
  /\ caller' = [caller EXCEPT !.lastCall = "Stop", !.stops = @ + 1]
  /\ UNCHANGED <<config, peer, file, identity, ctx, connBy, hs, reconn, ping, readers,
                 sender, lateAuthNoIdentity,
                 writeMu, bus, calc>>

\* ------------------------------------------------------------- connectAndAuthenticate
\* A failure that leaves the attempt's connection open.
HsFailNoClose(p, why, closeIt) ==
  /\ hs' = [hs EXCEPT ![p].pc = "ret", ![p].res = why, ![p].timer = 0]
  /\ connState' = connState

\* The attempt's connection, if any, is closed and the error is returned; a read
\* deadline that was set is cleared on the way out.
HsFail(p, why, closeIt) ==
  /\ hs' = [hs EXCEPT ![p].pc = "ret", ![p].res = why, ![p].timer = 0]
  /\ connState' = IF closeIt THEN Close(connState, hs[p].hconn) ELSE connState

Dial(p) ==
  /\ hs[p].pc = "dial"
  /\ \/ /\ FreeConns # {}
        /\ LET c == Min(FreeConns) IN
           /\ connState' = [connState EXCEPT ![c] = "open"]
           /\ hs' = [hs EXCEPT ![p].pc = "hello", ![p].hconn = c,
                               ![p].late = (connBy # "none"),
                               ![p].steps = Append(@, "dial"),
                               ![p].timer = AuthWindow]
     \/ HsFail(p, "dial worker ws failed", FALSE)
  /\ UNCHANGED <<config, peer, file, identity, running, ctx, cancelled, conn, connBy, caller,
                 reconn, ping, readers, sender, lateAuthNoIdentity,
                 writeMu, bus, calc>>

\* The read deadline set by awaitHello or awaitAuthOK comes nearer.
Tick(p) ==
  /\ hs[p].pc \in {"hello", "authok"}
  /\ hs[p].timer > 0
  /\ hs' = [hs EXCEPT ![p].timer = @ - 1]
  /\ UNCHANGED <<config, peer, file, identity, running, ctx, cancelled, conn, connState,
                 connBy, caller, reconn, ping, readers, sender, lateAuthNoIdentity,
                 writeMu, bus, calc>>

\* An awaitHello that goes on whatever the first frame is.
AwaitHelloAnyFrame(p) ==
  /\ hs[p].pc = "hello"
  /\ hs[p].timer > 0
  /\ \E f \in peer \cup {HelloFrame} :
       hs' = [hs EXCEPT ![p].pc = "auth", ![p].timer = 0,
                        ![p].steps = IF f.json /\ f.type = "hello"
                                     THEN Append(@, "hello") ELSE @]
  /\ UNCHANGED <<config, peer, file, identity, running, ctx, cancelled, conn, connState,
                 connBy, caller, reconn, ping, readers, sender, lateAuthNoIdentity,
                 writeMu, bus, calc>>

\* awaitHello: one ReadMessage under the deadline.  A read error or the deadline
\* fails the attempt, and so does a first frame that is not JSON or not of type
\* hello.  The step "hello" is recorded when the frame read is a hello.
AwaitHello(p) ==
  /\ hs[p].pc = "hello"
  /\ \/ /\ hs[p].timer > 0
        /\ \E f \in peer \cup {HelloFrame} :
             IF ~f.json THEN HsFail(p, "hello is not valid json", TRUE)
             ELSE IF f.type # "hello" THEN HsFail(p, "expected hello", TRUE)
             ELSE /\ hs' = [hs EXCEPT ![p].pc = "auth", ![p].timer = 0,
                                      ![p].steps = Append(@, "hello")]
                  /\ UNCHANGED connState
     \/ HsFail(p, "waiting hello failed", TRUE)
  /\ UNCHANGED <<config, peer, file, identity, running, ctx, cancelled, conn, connBy, caller,
                 reconn, ping, readers, sender, lateAuthNoIdentity,
                 writeMu, bus, calc>>

\* writeJSONConn(conn, c.buildAuthMessage()): the message is built, then the write
\* lock is taken.
SendAuthLock(p) ==
  /\ hs[p].pc = "auth"
  /\ LET msg == buildAuthMessage(config, identity) IN
     lateAuthNoIdentity' = (lateAuthNoIdentity \/ (hs[p].late /\ "identity" \notin DOMAIN msg))
  /\ writeJSONConnLock(<<"auth", p>>)
  /\ hs' = [hs EXCEPT ![p].pc = "authwrite"]
  /\ UNCHANGED <<config, peer, file, identity, running, ctx, cancelled, conn, connState,
                 connBy, caller, reconn, ping, readers, sender, bus, calc>>

\* conn.WriteMessage of the auth message, then the unlock; awaitAuthOK then sets its
\* read deadline, once, before its loop.
SendAuth(p) ==
  /\ hs[p].pc = "authwrite"
  /\ \/ /\ hs' = [hs EXCEPT ![p].pc = "authok", ![p].steps = Append(@, "auth"),
                               ![p].timer = AuthWindow]
        /\ UNCHANGED connState
     \/ HsFail(p, "send auth failed", TRUE)
  /\ writeJSONConnUnlock
  /\ UNCHANGED <<config, peer, file, identity, running, ctx, cancelled, conn, connBy, caller,
                 reconn, ping, readers, sender, lateAuthNoIdentity, bus, calc>>

\* The outcome of awaitAuthOK's loop on frame f.  A frame that is not JSON fails the
\* attempt; an auth_ok succeeds when id and key are non-empty and fails it otherwise;
\* an error fails it with the peer's message and code, the code auth_failed standing
\* in for a missing one; any other frame is ignored and the loop reads on.  The step
\* "auth_ok" is recorded when the frame read is an auth_ok with id and key.
AuthReply(p, f) ==
  IF ~f.json THEN HsFail(p, "auth response invalid json", TRUE)
  ELSE IF f.type = "auth_ok"
       THEN IF f.id = "" \/ f.key = ""
            THEN HsFail(p, "auth_ok missing id/key", TRUE)
            ELSE /\ hs' = [hs EXCEPT ![p].pc = "commit", ![p].timer = 0,
                                     ![p].ok = [ID |-> f.id, Key |-> f.key],
                                     ![p].steps = Append(@, "auth_ok")]
                 /\ UNCHANGED connState
  ELSE IF f.type = "error"
       THEN /\ hs' = [hs EXCEPT ![p].pc = "ret", ![p].res = "auth rejected",
                                ![p].timer = 0, ![p].msg = f.msg,
                                ![p].code = IF f.code = "" THEN "auth_failed" ELSE f.code]
            /\ connState' = Close(connState, hs[p].hconn)
  ELSE UNCHANGED <<hs, connState>>

\* An awaitAuthOK that takes the first frame for the answer: any frame that is
\* neither auth_ok nor error fails the attempt.
AwaitAuthOKFirstFrame(p) ==
  /\ hs[p].pc = "authok"
  /\ \/ /\ hs[p].timer > 0
        /\ \E f \in peer :
             IF f.json /\ f.type \notin {"auth_ok", "error"}
             THEN HsFail(p, "unexpected frame", TRUE)
             ELSE AuthReply(p, f)
     \/ HsFail(p, "waiting auth_ok failed", TRUE)
  /\ UNCHANGED <<config, peer, file, identity, running, ctx, cancelled, conn, connBy, caller,
                 reconn, ping, readers, sender, lateAuthNoIdentity,
                 writeMu, bus, calc>>

\* An awaitAuthOK that sets its read deadline anew for every frame it ignores.
AwaitAuthOKRearm(p) ==
  /\ hs[p].pc = "authok"
  /\ \/ /\ hs[p].timer > 0
        /\ \E f \in peer :
             IF f.json /\ f.type \notin {"auth_ok", "error"}
             THEN /\ hs' = [hs EXCEPT ![p].timer = AuthWindow]
                  /\ UNCHANGED connState
             ELSE AuthReply(p, f)
     \/ HsFail(p, "waiting auth_ok failed", TRUE)
  /\ UNCHANGED <<config, peer, file, identity, running, ctx, cancelled, conn, connBy, caller,
                 reconn, ping, readers, sender, lateAuthNoIdentity,
                 writeMu, bus, calc>>

\* awaitAuthOK: ReadMessage in a loop under the one deadline.  While the deadline
\* has not passed a frame may arrive; a read error, or the deadline, fails the
\* attempt.
AwaitAuthOK(p) ==
  /\ hs[p].pc = "authok"
  /\ \/ /\ hs[p].timer > 0
        /\ \E f \in peer : AuthReply(p, f)
     \/ HsFail(p, "waiting auth_ok failed", TRUE)
  /\ UNCHANGED <<config, peer, file, identity, running, ctx, cancelled, conn, connBy, caller,
                 reconn, ping, readers, sender, lateAuthNoIdentity,
                 writeMu, bus, calc>>

\* A commit that installs the new connection and leaves the previous one open.
CommitNoClose(p) ==
  /\ hs[p].pc = "commit"
  /\ connState' = connState
  /\ conn' = hs[p].hconn
  /\ identity' = hs[p].ok
  /\ connBy' = IF p = StartProc THEN "start" ELSE "reconnect"
  /\ hs' = [hs EXCEPT ![p].pc = "save", ![p].ok = NoIdentity,
                      ![p].steps = Append(@, "commit"), ![p].old = conn]
  /\ UNCHANGED <<config, peer, file, running, ctx, cancelled, caller, reconn, ping, readers,
                 sender, lateAuthNoIdentity,
                 writeMu, bus, calc>>

\* The section under c.mu: the previous connection, if any, is closed, the new one
\* becomes the handle and the identity of the auth_ok is stored.  old is the handle
\* that was replaced.
Commit(p) ==
  /\ hs[p].pc = "commit"
  /\ connState' = IF conn # None THEN Close(connState, conn) ELSE connState
  /\ conn' = hs[p].hconn
  /\ identity' = hs[p].ok
  /\ connBy' = IF p = StartProc THEN "start" ELSE "reconnect"
  /\ hs' = [hs EXCEPT ![p].pc = "save", ![p].ok = NoIdentity,
                      ![p].steps = Append(@, "commit"), ![p].old = conn]
  /\ UNCHANGED <<config, peer, file, running, ctx, cancelled, caller, reconn, ping, readers,
                 sender, lateAuthNoIdentity,
                 writeMu, bus, calc>>

\* saveIdentity (which reads the held identity again), then
\* go readLoop(conn), then return nil.
SaveAndSpawn(p) ==
  /\ hs[p].pc = "save"
  /\ file' = saveIdentity(file, identity)
  /\ readers' = [readers EXCEPT ![hs[p].hconn] =
                   [pc |-> "check", w |-> IF p = StartProc THEN ctx ELSE reconn[p].w,
                    born |-> ctx, out |-> ""]]
  /\ hs' = [hs EXCEPT ![p].pc = "ret", ![p].res = "", ![p].steps = Append(@, "readloop"),
                      ![p].old = None]
  /\ UNCHANGED <<config, peer, identity, running, ctx, cancelled, conn, connState, connBy,
                 caller, reconn, ping, sender, lateAuthNoIdentity,
                 writeMu, bus, calc>>

\* ------------------------------------------------------------- readLoop

\* A clear without the comparison: whatever is held is closed and dropped.
clearConnAlways(c) ==
  IF conn # None
  THEN /\ connState' = Close(connState, conn)
       /\ conn' = None
  ELSE UNCHANGED <<conn, connState>>

clearConnIfCurrent(c) ==
  IF conn = c
  THEN /\ connState' = Close(connState, conn)
       /\ conn' = None
  ELSE UNCHANGED <<conn, connState>>

ReadCheck(c) ==
  /\ readers[c].pc = "check"
  /\ \E v \in CtxView(readers[c].w) :
       readers' = [readers EXCEPT ![c].w = v,
                                  ![c].pc = IF v \in cancelled THEN "exited" ELSE "read",
                                  ![c].out = IF v \in cancelled THEN "cancelled" ELSE ""]
  /\ UNCHANGED <<config, peer, file, identity, running, ctx, cancelled, conn, connState, connBy,
                 caller, hs, reconn, ping, sender, lateAuthNoIdentity,
                 writeMu, bus, calc>>

\* conn.ReadMessage() returned a frame, handled by handleServerMessage.
ReadFrame(c) ==
  /\ readers[c].pc = "read"
  /\ connState[c] = "open"
  /\ \E f \in peer :
       /\ IF UpdatesIdentity(f)
          THEN /\ identity' = [ID |-> f.id, Key |-> f.key]
               /\ readers' = [readers EXCEPT ![c].pc = "save"]
          ELSE /\ identity' = identity
               /\ readers' = [readers EXCEPT ![c].pc = "check"]
       /\ bus' = Handled(config, f)
  /\ UNCHANGED <<config, peer, file, running, ctx, cancelled, conn, connState, connBy,
                 caller, hs, reconn, ping, sender, lateAuthNoIdentity,
                 writeMu, calc>>

\* handleServerMessage, case "auth_ok": _ = c.saveIdentity()
ReadSave(c) ==
  /\ readers[c].pc = "save"
  /\ file' = saveIdentity(file, identity)
  /\ readers' = [readers EXCEPT ![c].pc = "check"]
  /\ UNCHANGED <<config, peer, identity, running, ctx, cancelled, conn, connState, connBy,
                 caller, hs, reconn, ping, sender, lateAuthNoIdentity,
                 writeMu, bus, calc>>

\* conn.ReadMessage() returned an error: the connection was closed on this side, or
\* the peer closed it, or the network failed.
ReadError(c) ==
  /\ readers[c].pc = "read"
  /\ readers' = [readers EXCEPT ![c].pc = "clear"]
  /\ UNCHANGED <<config, peer, file, identity, running, ctx, cancelled, conn, connState, connBy,
                 caller, hs, reconn, ping, sender, lateAuthNoIdentity,
                 writeMu, bus, calc>>

ReadClear(c) ==
  /\ readers[c].pc = "clear"
  /\ clearConnIfCurrent(c)
  /\ readers' = [readers EXCEPT ![c].pc = "exited",
                                 ![c].out = IF conn = c THEN "cleared" ELSE "stale"]
  /\ UNCHANGED <<config, peer, file, identity, running, ctx, cancelled, connBy,
                 caller, hs, reconn, ping, sender, lateAuthNoIdentity,
                 writeMu, bus, calc>>

\* ------------------------------------------------------------- reconnectLoop
\* The select statement evaluates c.ctx.Done() when it is entered: w is the context
\* the loop waits on.
ReconnEnter(e) ==
  /\ reconn[e].pc = "enter"
  /\ \E v \in CtxView(reconn[e].w) : reconn' = [reconn EXCEPT ![e] = [pc |-> "select", w |-> v]]
  /\ UNCHANGED <<config, peer, file, identity, running, ctx, cancelled, conn, connState, connBy,
                 caller, hs, ping, readers, sender, lateAuthNoIdentity,
                 writeMu, bus, calc>>

ReconnExit(e) ==
  /\ reconn[e].pc = "select"
  /\ reconn[e].w \in cancelled
  /\ reconn' = [reconn EXCEPT ![e].pc = "exited"]
  /\ UNCHANGED <<config, peer, file, identity, running, ctx, cancelled, conn, connState, connBy,
                 caller, hs, ping, readers, sender, lateAuthNoIdentity,
                 writeMu, bus, calc>>

\* A tick that starts a handshake whether or not a connection is held.
ReconnTickAlways(e) ==
  /\ reconn[e].pc = "select"
  /\ reconn' = [reconn EXCEPT ![e].pc = "connect"]
  /\ hs' = [hs EXCEPT ![e] = [HsIdle EXCEPT !.pc = "dial"]]
  /\ UNCHANGED <<config, peer, file, identity, running, ctx, cancelled, conn, connState, connBy,
                 caller, ping, readers, sender, lateAuthNoIdentity,
                 writeMu, bus, calc>>

\* A tick whose test is inverted: it skips when no connection is held.
ReconnTickInverted(e) ==
  /\ reconn[e].pc = "select"
  /\ IF conn = None
     THEN /\ \E v \in CtxView(reconn[e].w) : reconn' = [reconn EXCEPT ![e].w = v]
          /\ hs' = hs
     ELSE /\ reconn' = [reconn EXCEPT ![e].pc = "connect"]
          /\ hs' = [hs EXCEPT ![e] = [HsIdle EXCEPT !.pc = "dial"]]
  /\ UNCHANGED <<config, peer, file, identity, running, ctx, cancelled, conn, connState, connBy,
                 caller, ping, readers, sender, lateAuthNoIdentity,
                 writeMu, bus, calc>>

\* case <-ticker.C: skip when a connection is held, else connectAndAuthenticate.
ReconnTick(e) ==
  /\ reconn[e].pc = "select"
  /\ IF conn # None
     THEN /\ \E v \in CtxView(reconn[e].w) : reconn' = [reconn EXCEPT ![e].w = v]
          /\ hs' = hs
     ELSE /\ reconn' = [reconn EXCEPT ![e].pc = "connect"]
          /\ hs' = [hs EXCEPT ![e] = [HsIdle EXCEPT !.pc = "dial"]]
  /\ UNCHANGED <<config, peer, file, identity, running, ctx, cancelled, conn, connState, connBy,
                 caller, ping, readers, sender, lateAuthNoIdentity,
                 writeMu, bus, calc>>

\* connectAndAuthenticate has returned to the loop, which goes back to its select.
ReconnReturn(e) ==
  /\ reconn[e].pc = "connect"
  /\ hs[e].pc = "ret"
  /\ connState' = IF hs[e].res # "" /\ hs[e].hconn # None
                  THEN [connState EXCEPT ![hs[e].hconn] = "free"] ELSE connState
  /\ hs' = [hs EXCEPT ![e] = HsIdle]
  /\ \E v \in CtxView(reconn[e].w) : reconn' = [reconn EXCEPT ![e] = [pc |-> "select", w |-> v]]
  /\ UNCHANGED <<config, peer, file, identity, running, ctx, cancelled, conn, connBy,
                 caller, ping, readers, sender, lateAuthNoIdentity,
                 writeMu, bus, calc>>

\* ------------------------------------------------------------- pingLoop
PingEnter(e) ==
  /\ ping[e].pc = "enter"
  /\ \E v \in CtxView(ping[e].w) : ping' = [ping EXCEPT ![e].pc = "select", ![e].w = v]
  /\ UNCHANGED <<config, peer, file, identity, running, ctx, cancelled, conn, connState, connBy,
                 caller, hs, reconn, readers, sender, lateAuthNoIdentity,
                 writeMu, bus, calc>>

PingExit(e) ==
  /\ ping[e].pc = "select"
  /\ ping[e].w \in cancelled
  /\ ping' = [ping EXCEPT ![e].pc = "exited"]
  /\ UNCHANGED <<config, peer, file, identity, running, ctx, cancelled, conn, connState, connBy,
                 caller, hs, reconn, readers, sender, lateAuthNoIdentity,
                 writeMu, bus, calc>>

\* case <-ticker.C: skip when no connection is held, else sendJSON(ping).  last is
\* the outcome of the latest tick and warned whether it logged a warning.
PingTick(e) ==
  /\ ping[e].pc = "select"
  /\ IF conn = None
     THEN \E v \in CtxView(ping[e].w) :
            ping' = [ping EXCEPT ![e].w = v, ![e].last = "skip", ![e].warned = FALSE]
     ELSE ping' = [ping EXCEPT ![e].pc = "send", ![e].last = "", ![e].warned = FALSE]
  /\ UNCHANGED <<config, peer, file, identity, running, ctx, cancelled, conn, connState, connBy,
                 caller, hs, reconn, readers, sender, lateAuthNoIdentity,
                 writeMu, bus, calc>>

\* sendJSON: getConn again; nil is the error "not connected", which the loop logs
\* as a warning unless the context it reads (u) is cancelled; v is the context the
\* next select waits on.
PingGetConn(e) ==
  /\ ping[e].pc = "send"
  /\ IF conn = None
     THEN \E u \in CtxView(ping[e].w) : \E v \in u..ctx :
            ping' = [ping EXCEPT ![e].pc = "select", ![e].w = v,
                                 ![e].last = "not connected",
                                 ![e].warned = (u \notin cancelled)]
     ELSE ping' = [ping EXCEPT ![e].pc = "write", ![e].wconn = conn]
  /\ UNCHANGED <<config, peer, file, identity, running, ctx, cancelled, conn, connState, connBy,
                 caller, hs, reconn, readers, sender, lateAuthNoIdentity,
                 writeMu, bus, calc>>

\* writeJSONConn: the write lock is taken.
PingLock(e) ==
  /\ ping[e].pc = "write"
  /\ writeJSONConnLock(<<"ping", e>>)
  /\ ping' = [ping EXCEPT ![e].pc = "writing"]
  /\ UNCHANGED <<config, peer, file, identity, running, ctx, cancelled, conn, connState, connBy,
                 caller, hs, reconn, readers, sender, lateAuthNoIdentity, bus, calc>>

\* A ping loop that returns when a write has failed.
PingWriteExitsOnError(e) ==
  /\ ping[e].pc = "writing"
  /\ \E r \in {"sent", "write failed"} :
       /\ (r = "sent" => connState[ping[e].wconn] = "open")
       /\ \E u \in CtxView(ping[e].w) : \E v \in u..ctx :
            ping' = [ping EXCEPT ![e] = [pc |-> IF r = "sent" THEN "select" ELSE "exited",
                                         w |-> v, wconn |-> None, last |-> r,
                                         warned |-> (r # "sent" /\ u \notin cancelled)]]
  /\ writeJSONConnUnlock
  /\ UNCHANGED <<config, peer, file, identity, running, ctx, cancelled, conn, connState, connBy,
                 caller, hs, reconn, readers, sender, lateAuthNoIdentity, bus, calc>>

\* writeJSONConn: conn.WriteMessage fails on a closed connection and may fail on an
\* open one; then the unlock.  A failure is logged as a warning unless the context
\* the loop reads (u) is cancelled, and the loop goes back to its select.
PingWrite(e) ==
  /\ ping[e].pc = "writing"
  /\ \E r \in {"sent", "write failed"} :
       /\ (r = "sent" => connState[ping[e].wconn] = "open")
       /\ \E u \in CtxView(ping[e].w) : \E v \in u..ctx :
            ping' = [ping EXCEPT ![e] = [pc |-> "select", w |-> v, wconn |-> None,
                                         last |-> r,
                                         warned |-> (r # "sent" /\ u \notin cancelled)]]
  /\ writeJSONConnUnlock
  /\ UNCHANGED <<config, peer, file, identity, running, ctx, cancelled, conn, connState, connBy,
                 caller, hs, reconn, readers, sender, lateAuthNoIdentity, bus, calc>>

\* ------------------------------------------------------------- Send
\* A Send that does not test the running flag.
SendCheckNoRunningTest ==
  /\ sender.pc = "idle"
  /\ sender' = [SenderIdle EXCEPT !.called = TRUE, !.obsRunning = running,
                                  !.pc = "getconn"]
  /\ UNCHANGED <<config, peer, file, identity, running, ctx, cancelled, conn, connState, connBy,
                 caller, hs, reconn, ping, readers, lateAuthNoIdentity,
                 writeMu, bus, calc>>

SendCheck ==
  /\ sender.pc = "idle"
  /\ IF ~running
     THEN sender' = [SenderIdle EXCEPT !.called = TRUE, !.obsRunning = running,
                                       !.res = "not running"]
     ELSE sender' = [SenderIdle EXCEPT !.called = TRUE, !.obsRunning = running,
                                       !.pc = "getconn"]
  /\ UNCHANGED <<config, peer, file, identity, running, ctx, cancelled, conn, connState, connBy,
                 caller, hs, reconn, ping, readers, lateAuthNoIdentity,
                 writeMu, bus, calc>>

SendGetConn ==
  /\ sender.pc = "getconn"
  /\ IF conn = None
     THEN sender' = [sender EXCEPT !.pc = "idle", !.res = "not connected"]
     ELSE sender' = [sender EXCEPT !.pc = "write", !.wconn = conn]
  /\ UNCHANGED <<config, peer, file, identity, running, ctx, cancelled, conn, connState, connBy,
                 caller, hs, reconn, ping, readers, lateAuthNoIdentity,
                 writeMu, bus, calc>>

\* writeJSONConn: the write lock is taken.
SendLock ==
  /\ sender.pc = "write"
  /\ writeJSONConnLock(<<"send", 0>>)
  /\ sender' = [sender EXCEPT !.pc = "writing"]
  /\ UNCHANGED <<config, peer, file, identity, running, ctx, cancelled, conn, connState, connBy,
                 caller, hs, reconn, ping, readers, lateAuthNoIdentity, bus, calc>>

\* A Send that tries a failed write once more before it returns the error.
SendWriteRetry ==
  /\ sender.pc = "writing"
  /\ \E r \in {"", "write failed"} :
       /\ (r = "" => connState[sender.wconn] = "open")
       /\ IF r # "" /\ sender.attempts = 0
          THEN sender' = [sender EXCEPT !.pc = "write", !.wrote = TRUE, !.attempts = @ + 1]
          ELSE sender' = [sender EXCEPT !.pc = "idle", !.wrote = TRUE,
                                        !.attempts = @ + 1, !.res = r]
  /\ writeJSONConnUnlock
  /\ UNCHANGED <<config, peer, file, identity, running, ctx, cancelled, conn, connState,
                 connBy, caller, hs, reconn, ping, readers, lateAuthNoIdentity, bus, calc>>

\* conn.WriteMessage: fails on a closed connection, may fail on an open one; then
\* the unlock, and the result is returned to the caller of Send.
SendWrite ==
  /\ sender.pc = "writing"
  /\ \E r \in {"", "write failed"} :
       /\ (r = "" => connState[sender.wconn] = "open")
       /\ sender' = [sender EXCEPT !.pc = "idle", !.wrote = TRUE,
                                     !.attempts = @ + 1, !.res = r]
  /\ writeJSONConnUnlock
  /\ UNCHANGED <<config, peer, file, identity, running, ctx, cancelled, conn, connState, connBy,
                 caller, hs, reconn, ping, readers, lateAuthNoIdentity, bus, calc>>

\* ------------------------------------------------------------- specification
Lifecycle ==
  \/ StartValidate
  \/ StartAfterConnect
  \/ StartSpawn
  \/ StartSetRunning
  \/ Stop

Handshake ==
  \/ \E p \in Procs : Dial(p)
  \/ \E p \in Procs : AwaitHello(p)
  \/ \E p \in Procs : SendAuthLock(p)
  \/ \E p \in Procs : SendAuth(p)
  \/ \E p \in Procs : AwaitAuthOK(p)
  \/ \E p \in Procs : Commit(p)
  \/ \E p \in Procs : SaveAndSpawn(p)

ReadLoop ==
  \/ \E c \in Conns : ReadCheck(c)
  \/ \E c \in Conns : ReadFrame(c)
  \/ \E c \in Conns : ReadSave(c)
  \/ \E c \in Conns : ReadError(c)
  \/ \E c \in Conns : ReadClear(c)

ReconnectLoop ==
  \/ \E e \in Epochs : ReconnEnter(e)
  \/ \E e \in Epochs : ReconnExit(e)
  \/ \E e \in Epochs : ReconnTick(e)
  \/ \E e \in Epochs : ReconnReturn(e)

PingLoop ==
  \/ \E e \in Epochs : PingEnter(e)
  \/ \E e \in Epochs : PingExit(e)
  \/ \E e \in Epochs : PingTick(e)
  \/ \E e \in Epochs : PingGetConn(e)
  \/ \E e \in Epochs : PingLock(e)
  \/ \E e \in Epochs : PingWrite(e)

SendCall ==
  \/ SendCheck
  \/ SendGetConn
  \/ SendLock
  \/ SendWrite

\* Send and the ping loop read the shared handle, the running flag and the context,
\* take the write lock and write to a connection.  Spec runs the activities that
\* write the handle, the identity and the context.
Next == Lifecycle \/ Handshake \/ ReadLoop \/ ReconnectLoop

Spec == Init /\ [][Next]_vars

\* LiveSpec follows one Start: the channel is started once, may be stopped, and is
\* not started again.
FirstStart == ctx = 0 /\ StartValidate

LiveNext ==
  \/ FirstStart
  \/ StartAfterConnect
  \/ StartSpawn
  \/ StartSetRunning
  \/ Stop
  \/ Handshake
  \/ ReadLoop
  \/ ReconnectLoop

\* Scheduling: a goroutine that can take a step eventually takes it and a ticker
\* eventually fires.  The peer is reachable: a handshake step of the reconnect loop
\* that is attempted again and again eventually succeeds.  Nothing is assumed of the
\* callers of Start and Stop, nor of what the peer sends on an open connection.
Fairness ==
  /\ \A c \in Conns : WF_vars(ReadClear(c))
  /\ \A e \in Epochs :
       /\ WF_vars(ReconnEnter(e))
       /\ WF_vars(ReconnTick(e))
       /\ WF_vars(ReconnReturn(e))
       /\ SF_vars(Dial(e) /\ hs'[e].pc = "hello")
       /\ SF_vars(AwaitHello(e) /\ hs'[e].pc = "auth")
       /\ WF_vars(SendAuthLock(e))
       /\ SF_vars(SendAuth(e) /\ hs'[e].pc = "authok")
       /\ SF_vars(AwaitAuthOK(e) /\ hs'[e].pc = "commit")
       /\ WF_vars(Commit(e))
       /\ WF_vars(SaveAndSpawn(e))

LiveSpec == Init /\ [][LiveNext]_vars /\ Fairness

\* CalcSpec calls the functions that build the parts of outbound frames, on a
\* channel that is constructed and not started: resolveTarget on every chat id, and
\* buildAuthMessage on every auth key and held identity (set directly, as the tests
\* of the package set it).
CalcInit ==
  /\ Constructed
  /\ peer = ControlFrames
  /\ file = [kind |-> "absent", ID |-> "", Key |-> ""]
  /\ config \in CalcConfigs
  /\ \/ identity \in Identities /\ calc = CalcIdle
     \/ /\ identity = NoIdentity
        /\ config.AuthKey = <<>>
        /\ calc \in { [CalcIdle EXCEPT !.arg = s] : s \in ChatIDs }

CallResolveTarget ==
  /\ calc.fn # "resolveTarget"
  /\ calc' = [fn |-> "resolveTarget", arg |-> calc.arg, out |-> resolveTarget(calc.arg)]
  /\ UNCHANGED <<config, peer, file, identity, running, ctx, cancelled, conn, connState, connBy,
                 caller, hs, reconn, ping, readers, sender, lateAuthNoIdentity,
                 writeMu, bus>>

CallBuildAuthMessage ==
  /\ calc.fn # "buildAuthMessage"
  /\ calc' = [fn |-> "buildAuthMessage", arg |-> calc.arg,
              out |-> buildAuthMessage(config, identity)]
  /\ UNCHANGED <<config, peer, file, identity, running, ctx, cancelled, conn, connState, connBy,
                 caller, hs, reconn, ping, readers, sender, lateAuthNoIdentity,
                 writeMu, bus>>

CalcNext == CallResolveTarget \/ CallBuildAuthMessage

CalcSpec == CalcInit /\ [][CalcNext]_vars

\* FrameSpec follows one Start without reconnection against a peer that sends
\* every inbound frame, routed messages with and without a sender id included, under
\* each allow-list.
AllowLists == { {}, {"a"}, {Fallback}, {"a", "b"} }
FrameConfigs ==
  { [Address |-> <<"w", "s">>, Role |-> Boss, Name |-> <<"n">>, Tags |-> << <<"t">> >>,
     AuthKey |-> <<>>, ReconnectInterval |-> 0, PingInterval |-> 0, AllowFrom |-> a] :
       a \in AllowLists }

FrameInit ==
  /\ Constructed
  /\ config \in FrameConfigs
  /\ peer = InboundFrames
  /\ file = [kind |-> "absent", ID |-> "", Key |-> ""]
  /\ identity = NoIdentity
  /\ calc = CalcIdle

FrameNext ==
  \/ FirstStart
  \/ StartAfterConnect
  \/ StartSpawn
  \/ StartSetRunning
  \/ Stop
  \/ Handshake
  \/ ReadLoop

FrameSpec == FrameInit /\ [][FrameNext]_vars

\* IntervalSpec follows one Start under every configured reconnect and ping
\* interval from -1 to MaxInterval seconds.
IntervalSeconds == (0 - 1)..MaxInterval
IntervalConfigs ==
  { [Address |-> <<"w", "s">>, Role |-> Boss, Name |-> <<"n">>, Tags |-> << <<"t">> >>,
     AuthKey |-> <<>>, ReconnectInterval |-> r, PingInterval |-> q, AllowFrom |-> {}] :
       r \in IntervalSeconds, q \in IntervalSeconds }

IntervalInit ==
  /\ Constructed
  /\ config \in IntervalConfigs
  /\ peer = ControlFrames
  /\ file = [kind |-> "absent", ID |-> "", Key |-> ""]
  /\ identity = NoIdentity
  /\ calc = CalcIdle

IntervalSpec == IntervalInit /\ [][LiveNext]_vars

\* HandshakeSpec follows the handshake of one Start, without reconnection, against
\* each kind of peer, with the read deadlines of the handshake running down.
HandshakeInit ==
  /\ Constructed
  /\ config \in { cfg \in FrameConfigs : cfg.AllowFrom = {} }
  /\ peer \in AuthPeers
  /\ file = [kind |-> "absent", ID |-> "", Key |-> ""]
  /\ identity = NoIdentity
  /\ calc = CalcIdle

HandshakeNext == FrameNext \/ Tick(StartProc)

HandshakeSpec == HandshakeInit /\ [][HandshakeNext]_vars

\* Time passes, and a read whose deadline has passed returns.  Nothing is assumed
\* of the peer: it may send frames for ever, or nothing.
AuthFairness ==
  /\ WF_vars(Tick(StartProc))
  /\ WF_vars(AwaitHello(StartProc) /\ hs[StartProc].timer = 0)
  /\ WF_vars(AwaitAuthOK(StartProc) /\ hs[StartProc].timer = 0)

AuthLiveSpec == HandshakeInit /\ [][HandshakeNext]_vars /\ AuthFairness

\* DispatchSpec follows one Start against a peer that answers the auth message with
\* a complete auth_ok and sends, besides it, one frame that the dispatch has no
\* handler for or only logs; such a frame may carry an id and a key all the same.
InertFrames ==
  { f \in InboundFrames : ~f.json \/ f.type \in FrameTypes }
    \cup { Frame(TRUE, t, "w2", "k2", "", "", "") : t \in FrameTypes }
AuthOKFrame == Frame(TRUE, "auth_ok", "w1", "k1", "", "", "")

DispatchInit ==
  /\ Constructed
  /\ config \in { cfg \in FrameConfigs : cfg.AllowFrom = {} }
  /\ peer \in { {AuthOKFrame, f} : f \in InertFrames }
  /\ file = [kind |-> "absent", ID |-> "", Key |-> ""]
  /\ identity = NoIdentity
  /\ calc = CalcIdle

DispatchSpec == DispatchInit /\ [][FrameNext]_vars

\* SendSpec adds a caller of Send to the run of one Start.
SendNext == LiveNext \/ SendCall

SendSpec == Init /\ [][SendNext]_vars

\* WriteSpec runs every writer of frames next to one Start: the handshakes, a caller
\* of Send and the ping loop.
WriteNext == SendNext \/ PingLoop

WriteSpec == Init /\ [][WriteNext]_vars

\* ------------------------------------------------------------- claims
\* C1: when a read loop leaves through clearConnIfCurrent, the shared handle is set
\* to none and the loop's own connection closed exactly when the handle was that
\* connection; otherwise the handle and every connection are left as they were.  A
\* read loop never clears or closes a connection other than its own.
C1_CompareAndClear ==
  [][\A c \in Conns :
       (readers[c].pc = "clear" /\ readers'[c].pc = "exited") =>
         /\ (conn = c => conn' = None /\ connState[c] = "open" /\ connState'[c] = "closed")
         /\ (conn # c => conn' = conn /\ connState' = connState)
         /\ \A d \in Conns \ {c} : connState'[d] = connState[d]]_vars

\* A read loop found another, open connection installed and left it alone.
C1_Witness ==
  \E c \in Conns :
    /\ readers[c].pc = "exited"
    /\ readers[c].out = "stale"
    /\ conn # None
    /\ conn # c
    /\ connState[conn] = "open"

\* C3: every auth message sent by a handshake attempt that began after some
\* handshake had committed an identity carries an identity field.
C3_IdentitySurvivesReconnect == ~lateAuthNoIdentity

\* C4: the held identity is fully absent or fully present.
C4_IdentityAllOrNothing == (identity.ID = "") <=> (identity.Key = "")

\* C7: every Stop leaves the channel not running, the context cancelled and the
\* handle none, and leaves the identity and its file alone; it closes the held
\* connection, which was open, once; with no connection held (a second Stop, or a
\* Stop before any Start) it closes nothing; no connection is ever closed twice.
C7_StopIdempotent ==
  [][caller'.stops = caller.stops + 1 =>
       /\ ~running'
       /\ conn' = None
       /\ identity' = identity
       /\ file' = file
       /\ (ctx # 0 => ctx \in cancelled')
       /\ (conn # None => connState[conn] = "open" /\ connState'[conn] = "closed")
       /\ (conn = None => connState' = connState)
       /\ \A c \in Conns : connState'[c] # "closed2"
       /\ (caller.stops >= 1 /\ conn = None =>
             /\ running' = running
             /\ cancelled' = cancelled)]_vars

\* A second Stop in a row, on a channel that had been started and had held a
\* connection.
C7_Witness ==
  /\ caller.stops = 2
  /\ caller.startRes = "ok"
  /\ \E c \in Conns : connState[c] = "closed"

HasNonBlank(s) == \E i \in DOMAIN s : s[i] # SP

ConfigComplete(cfg) ==
  /\ HasNonBlank(cfg.Address)
  /\ cfg.Role \in {Employee, Boss}
  /\ HasNonBlank(cfg.Name)
  /\ \E i \in DOMAIN cfg.Tags : HasNonBlank(cfg.Tags[i])

C10_ConfigGate ==
  /\ (validateConfig(config) = "") <=> ConfigComplete(config)
  /\ caller.lastCall = "Start" => ((caller.startRes = "config") <=> ~ConfigComplete(config))
  /\ ~ConfigComplete(config) =>
       /\ ~running
       /\ ctx = 0
       /\ conn = None
       /\ \A c \in Conns : connState[c] = "free" /\ readers[c].pc = "none"
       /\ \A p \in Procs : hs[p].pc = "idle"
       /\ \A e \in Epochs : reconn[e].pc = "none" /\ ping[e].pc = "none"

\* Start returned the configuration error for a configuration whose only defect is
\* a role that is boss after trimming but not equal to it.
C10_Witness ==
  /\ caller.lastCall = "Start"
  /\ caller.startRes = "config"
  /\ config.Role = <<SP>> \o Boss
  /\ HasNonBlank(config.Address)
  /\ HasNonBlank(config.Name)
  /\ cleanTags(config.Tags) # <<>>

\* C5: while the channel is running with reconnection enabled, a read error on the
\* held connection leads to another connection being held with its read loop
\* running, unless the channel is stopped first (or every connection of the model
\* has been used).
ReaderActive(c) == readers[c].pc \in {"check", "read", "save"}

Exhausted == \A c \in Conns : readers[c].pc # "none"

C5_ReconnectLiveness ==
  \A c \in Conns :
    (readers[c].pc = "clear" /\ conn = c /\ running /\ reconnectInterval(config) > 0)
      ~> \/ (conn # None /\ conn # c /\ ReaderActive(conn))
         \/ ~running
         \/ Exhausted

\* The reconnect loop has installed a second connection after a read loop cleared
\* the first, and the new read loop is running.
C5_Witness ==
  /\ running
  /\ conn = 2
  /\ connBy = "reconnect"
  /\ ReaderActive(2)
  /\ readers[1].out = "cleared"

\* C2: a Send that finds the channel not running returns the not-running error; one
\* that finds it running and the handle none returns the not-connected error; in
\* both cases nothing is written.  A frame is written only by a Send that found the
\* channel running and a connection held.
C2_SendRequiresRunningAndConn ==
  /\ (sender.called /\ ~sender.obsRunning) =>
        (sender.pc = "idle" /\ sender.res = "not running" /\ ~sender.wrote)
  /\ (sender.called /\ sender.pc = "idle" /\ sender.obsRunning /\ sender.wconn = None) =>
        (sender.res = "not connected" /\ ~sender.wrote)
  /\ sender.res = "not running" => ~sender.obsRunning
  /\ sender.res = "not connected" => (sender.wconn = None /\ ~sender.wrote)
  /\ (sender.pc = "write" \/ sender.wrote) => (sender.obsRunning /\ sender.wconn # None)

\* Send returned not-connected on a running channel whose read loop had cleared
\* the handle.
C2_Witness ==
  /\ sender.pc = "idle"
  /\ sender.res = "not connected"
  /\ running
  /\ conn = None
  /\ \E c \in Conns : readers[c].out = "cleared"

\* C6: once Stop has cancelled the context of a Start, the reconnect loop started
\* by that Start does not go on waiting on a context that is not cancelled: it
\* exits, now or when its select next sees the cancellation, also when a later
\* Start has run in between.
C6_NoLoopOutlivesStop ==
  \A e \in Epochs :
    e \in cancelled => ~(reconn[e].pc = "select" /\ reconn[e].w \notin cancelled)

\* C9: when the handshake of Start fails and reconnection is enabled, Start returns
\* success: the channel is running, the reconnect loop and the ping loop of this
\* Start are started, and a connection is held only once a reconnect loop has
\* committed one; a Send that finds the channel running and no connection held
\* returns the not-connected error and writes nothing.
C9_StartSucceedsWhenReconnectEnabled ==
  /\ (caller.lastCall = "Start" /\ caller.hsFailed /\ caller.pc = "idle"
        /\ reconnectInterval(config) > 0) =>
       /\ caller.startRes = "ok"
       /\ running
       /\ reconn[ctx].pc # "none"
       /\ ping[ctx].pc # "none"
       /\ (conn # None => connBy = "reconnect")
  /\ (sender.called /\ sender.pc = "idle" /\ sender.obsRunning /\ sender.wconn = None) =>
       (sender.res = "not connected" /\ ~sender.wrote)

\* Start has returned success after a failed handshake, nothing has been committed
\* yet, and a Send has returned not-connected.
C9_Witness ==
  /\ caller.lastCall = "Start"
  /\ caller.hsFailed
  /\ caller.startRes = "ok"
  /\ running
  /\ conn = None
  /\ connBy = "none"
  /\ sender.pc = "idle"
  /\ sender.res = "not connected"

\* The goroutines inside conn.WriteMessage.
Writers ==
  { w \in {<<"send", 0>>} : sender.pc = "writing" }
    \cup { <<"ping", e>> : e \in { x \in Epochs : ping[x].pc = "writing" } }
    \cup { <<"auth", p>> : p \in { x \in Procs : hs[x].pc = "authwrite" } }

\* C11: at most one frame write is in progress at any time, and the goroutine
\* writing -- Send, a ping loop or a handshake sending auth -- holds the write lock.
C11_SingleWriter ==
  /\ Cardinality(Writers) <= 1
  /\ \A w \in Writers : writeMu = w
  /\ (Writers = {}) => writeMu = Free

\* Send is writing while the ping loop and a handshake of the reconnect loop both
\* wait for the write lock, and the handle has been cleared meanwhile.
C11_Witness ==
  /\ sender.pc = "writing"
  /\ \E e \in Epochs : ping[e].pc = "write"
  /\ \E p \in Procs : hs[p].pc = "auth"
  /\ conn = None

\* C12: the auth message carries an identity field, with the id and key of the held
\* identity, exactly when the held identity has both id and key non-empty; it carries
\* an authkey field exactly when the configured auth key is non-blank.
C12_AuthMessage ==
  calc.fn = "buildAuthMessage" =>
    LET msg == calc.out IN
    /\ ("identity" \in DOMAIN msg) <=> (identity.ID # "" /\ identity.Key # "")
    /\ ("identity" \in DOMAIN msg) =>
          (msg["identity"].id = identity.ID /\ msg["identity"].key = identity.Key)
    /\ ("authkey" \in DOMAIN msg) <=> HasNonBlank(config.AuthKey)
    /\ ("authkey" \in DOMAIN msg) => msg["authkey"] = config.AuthKey
    /\ msg["type"] = "auth"

\* An auth message built with a non-blank auth key while the held identity has an
\* id and no key: authkey present, identity absent.
C12_Witness ==
  /\ calc.fn = "buildAuthMessage"
  /\ identity = [ID |-> "w1", Key |-> ""]
  /\ config.AuthKey = <<SP, "k">>
  /\ "authkey" \in DOMAIN calc.out
  /\ "identity" \notin DOMAIN calc.out

\* The trimmed string, by positions: what lies between the first and the last
\* character that is not a blank.
NonBlankAt(s) == { i \in 1..Len(s) : s[i] # SP }
Trimmed(s) ==
  IF NonBlankAt(s) = {} THEN <<>>
  ELSE SubSeq(s, CHOOSE i \in NonBlankAt(s) : \A j \in NonBlankAt(s) : i <= j,
                 CHOOSE i \in NonBlankAt(s) : \A j \in NonBlankAt(s) : i >= j)

\* The items of a comma list, by positions: the trimmed stretches between
\* neighbouring separators (the ends of the string included), empties dropped.
Cuts(t) == {0, Len(t) + 1} \cup { i \in 1..Len(t) : t[i] = Comma }
NthCut(t, k) == CHOOSE x \in Cuts(t) : Cardinality({ y \in Cuts(t) : y < x }) = k - 1
Items(t) ==
  SelectSeq([k \in 1..(Cardinality(Cuts(t)) - 1) |->
               Trimmed(SubSeq(t, NthCut(t, k) + 1, NthCut(t, k + 1) - 1))],
            LAMBDA x : x # <<>>)
IsAll(t) == Len(t) = 3 /\ t[1] \in {"a", "A"} /\ t[2] \in {"l", "L"} /\ t[3] \in {"l", "L"}

\* C15: resolveTarget gives the broadcast marker for a chat id that is empty after
\* trimming; the trimmed string itself, case kept, when it is the star or a case
\* variant of "all"; for a string with a comma the single non-empty trimmed item as a
\* string, two or more as an ordered list, and the trimmed string when no item
\* remains; the trimmed string in every other case.
C15_ResolveTarget ==
  calc.fn = "resolveTarget" =>
    LET t == Trimmed(calc.arg)
        out == calc.out IN
    IF t = <<>> THEN out = Scalar(Star)
    ELSE IF t = Star \/ IsAll(t) THEN out = Scalar(t)
    ELSE IF Cuts(t) # {0, Len(t) + 1}
         THEN IF Len(Items(t)) = 1 THEN out = Scalar(Items(t)[1])
              ELSE IF Len(Items(t)) >= 2 THEN out = List(Items(t))
              ELSE out = Scalar(t)
    ELSE out = Scalar(t)

\* A comma list with a blank before its second item resolved to the list of the two
\* trimmed items.
C15_Witness ==
  /\ calc.fn = "resolveTarget"
  /\ calc.arg = <<"a", Comma, SP, "l">>
  /\ calc.out = List(<< <<"a">>, <<"l">> >>)

\* C13: a routed message frame whose sender id (from_id, or the fallback id when it
\* is absent) is not in a non-empty allow-list hands nothing to the bus; with an empty
\* allow-list a routed message frame hands exactly one message to the bus, under its
\* sender id; a frame of any other type hands nothing to the bus.
C13_AllowList ==
  LET fromID == IF bus.from = "" THEN Fallback ELSE bus.from IN
  /\ (bus.routed /\ config.AllowFrom # {} /\ fromID \notin config.AllowFrom) =>
        bus.delivered = <<>>
  /\ (bus.routed /\ config.AllowFrom = {}) =>
        bus.delivered = << [sender |-> fromID, chat |-> fromID] >>
  /\ Len(bus.delivered) <= 1
  /\ bus.delivered # <<>> => (bus.routed /\ bus.type = "message")

\* A routed message without from_id was dropped because the allow-list does not
\* hold the fallback id.
C13_Witness ==
  /\ bus.routed
  /\ bus.from = ""
  /\ config.AllowFrom = {"a", "b"}
  /\ bus.delivered = <<>>

\* C14: a Send call makes at most one write attempt; a Send that failed has returned
\* (not running and not connected without a write attempt, a write error after its
\* one attempt), and a message frame is written by nothing but the write step of the
\* Send call in progress: no later step, such as a reconnect, writes it again.
C14_AtMostOnce ==
  /\ [](/\ sender.attempts <= 1
        /\ sender.res # "" => sender.pc = "idle"
        /\ sender.res \in {"not running", "not connected"} => sender.attempts = 0
        /\ sender.res = "write failed" => sender.attempts = 1)
  /\ [][sender'.attempts # sender.attempts =>
          \/ sender.pc = "idle" /\ sender'.attempts = 0
          \/ /\ sender.pc = "writing"
             /\ sender'.pc = "idle"
             /\ sender.attempts = 0
             /\ sender'.attempts = 1]_vars

\* A Send failed with a write error after its one attempt, and a reconnect has
\* installed a new connection since; the failed message was not written again.
C14_Witness ==
  /\ sender.pc = "idle"
  /\ sender.res = "write failed"
  /\ sender.attempts = 1
  /\ conn # None
  /\ conn # sender.wconn
  /\ connBy = "reconnect"

\* C16: a configured reconnect interval <= 0 resolves to 0 and no reconnect loop is
\* started, 1..4 resolves to 5 and n >= 5 to n seconds; a configured ping interval
\* <= 0 resolves to 15, 1..4 to 5 and n >= 5 to n seconds, so it is always >= 5 and
\* a Start that succeeds has started the ping loop.
C16_Intervals ==
  LET r == config.ReconnectInterval
      q == config.PingInterval IN
  /\ r <= 0 => reconnectInterval(config) = 0
  /\ r \in 1..4 => reconnectInterval(config) = 5
  /\ r >= 5 => reconnectInterval(config) = r
  /\ q <= 0 => pingInterval(config) = 15
  /\ q \in 1..4 => pingInterval(config) = 5
  /\ q >= 5 => pingInterval(config) = q
  /\ pingInterval(config) >= 5
  /\ r <= 0 => \A e \in Epochs : reconn[e].pc = "none"
  /\ (caller.lastCall = "Start" /\ caller.startRes = "ok") =>
        /\ ping[ctx].pc # "none"
        /\ (r > 0 <=> reconn[ctx].pc # "none")

\* A Start has succeeded with ping interval -1 and reconnect interval 3: both loops
\* are started.
C16_Witness ==
  /\ caller.lastCall = "Start"
  /\ caller.startRes = "ok"
  /\ config.PingInterval = 0 - 1
  /\ config.ReconnectInterval = 3
  /\ ping[ctx].pc # "none"
  /\ reconn[ctx].pc # "none"

\* The steps of one connection attempt, in order.
Order == <<"dial", "hello", "auth", "auth_ok", "commit", "readloop">>
IsPrefix(a, b) == Len(a) <= Len(b) /\ a = SubSeq(b, 1, Len(a))

\* C17: the steps of a connection attempt happen in the order dial, hello received,
\* auth sent, auth_ok received, commit, read loop started: auth is not sent before a
\* hello was received on the connection, and a connection becomes the shared handle
\* only after an auth_ok with id and key was received on it, and its read loop is
\* started only after that.
C17_HandshakeOrder ==
  /\ [](\A p \in Procs : IsPrefix(hs[p].steps, Order))
  /\ [][(conn' # conn /\ conn' # None) =>
          \E p \in Procs : /\ hs[p].hconn = conn'
                           /\ hs[p].steps = SubSeq(Order, 1, 4)
                           /\ hs[p].ok.ID # "" /\ hs[p].ok.Key # ""
                           /\ identity' = hs[p].ok]_vars
  /\ [][\A c \in Conns : (readers[c].pc = "none" /\ readers'[c].pc # "none") =>
          \E p \in Procs : /\ hs[p].hconn = c
                           /\ hs[p].steps = SubSeq(Order, 1, 5)]_vars

\* A handshake of a reconnect loop has gone through all its steps and its connection
\* is the shared handle.
C17_Witness ==
  \E e \in Epochs : /\ hs[e].steps = Order
                    /\ conn = hs[e].hconn
                    /\ readers[conn].pc # "none"

\* C18: a step that fails a handshake attempt closes the attempt's own connection,
\* if one was opened, and changes neither the shared handle, nor the held identity,
\* nor the identity file, nor any read loop, nor another connection; and no step of
\* an attempt before its commit changes any of these.
C18_FailedHandshakeFrame ==
  [][\A p \in Procs :
       /\ (hs[p].pc \notin {"idle", "ret"} /\ hs'[p].pc = "ret" /\ hs'[p].res # "") =>
            /\ conn' = conn
            /\ identity' = identity
            /\ file' = file
            /\ readers' = readers
            /\ hs[p].hconn # None =>
                  (connState[hs[p].hconn] = "open" /\ connState'[hs[p].hconn] = "closed")
            /\ \A c \in Conns \ {hs[p].hconn} : connState'[c] = connState[c]
            /\ "commit" \notin { hs[p].steps[i] : i \in 1..Len(hs[p].steps) }
       /\ (hs'[p] # hs[p] /\ hs'[p].pc \in {"hello", "auth", "authwrite", "authok", "commit"}) =>
            /\ conn' = conn
            /\ identity' = identity
            /\ file' = file
            /\ readers' = readers]_vars

\* A handshake attempt was rejected by the peer and its connection is closed, while
\* another connection is held and open.
C18_Witness ==
  \E p \in Procs : /\ hs[p].pc = "ret"
                   /\ hs[p].res = "auth rejected"
                   /\ connState[hs[p].hconn] = "closed"
                   /\ conn # None
                   /\ conn # hs[p].hconn
                   /\ connState[conn] = "open"

StepsOf(p) == { hs[p].steps[i] : i \in 1..Len(hs[p].steps) }

\* C19: while auth_ok is awaited, a frame that is neither auth_ok nor error is never
\* the reason of a failure; a rejection carries the message and the code of an error
\* frame of the peer, with auth_failed for a missing code; the attempt goes on to
\* the commit only with the non-empty id and key of an auth_ok of the peer, and
\* fails on an auth_ok that lacks one; a frame that is not JSON fails it.
C19_AuthReplyFiltering ==
  \A p \in Procs :
    LET h == hs[p] IN
    /\ h.res = "auth rejected" =>
          \E f \in peer : /\ f.json /\ f.type = "error"
                          /\ h.msg = f.msg
                          /\ h.code = (IF f.code = "" THEN "auth_failed" ELSE f.code)
    /\ h.res = "auth_ok missing id/key" =>
          \E f \in peer : f.json /\ f.type = "auth_ok" /\ (f.id = "" \/ f.key = "")
    /\ h.res = "auth response invalid json" => \E f \in peer : ~f.json
    /\ h.pc = "commit" =>
          /\ h.ok.ID # "" /\ h.ok.Key # ""
          /\ \E f \in peer : /\ f.json /\ f.type = "auth_ok"
                              /\ f.id = h.ok.ID /\ f.key = h.ok.Key
    /\ (h.pc = "ret" /\ h.res # "" /\ "auth" \in StepsOf(p)) =>
          h.res \in {"auth rejected", "auth_ok missing id/key",
                     "auth response invalid json", "waiting auth_ok failed"}

\* A peer that sends unrelated frames and an error frame without a code has
\* rejected the attempt: the code is auth_failed and the message is the peer's.
C19_Witness ==
  /\ hs[StartProc].pc = "ret"
  /\ hs[StartProc].res = "auth rejected"
  /\ hs[StartProc].code = "auth_failed"
  /\ hs[StartProc].msg = "no"
  /\ peer = UnrelatedFrames \cup {Frame(TRUE, "error", "", "", "", "", "no")}

\* C20: the wait for the hello and the wait for auth_ok each come to an end,
\* whatever the peer sends and however long it goes on sending: the deadline set
\* when the wait began passes.
C20_AuthWaitBounded ==
  /\ (hs[StartProc].pc = "hello") ~> (hs[StartProc].pc # "hello")
  /\ (hs[StartProc].pc = "authok") ~> (hs[StartProc].pc # "authok")

\* The deadline of the wait for auth_ok has passed under a peer that sends nothing
\* but unrelated frames.
C20_Witness ==
  /\ hs[StartProc].pc = "authok"
  /\ hs[StartProc].timer = 0
  /\ peer = UnrelatedFrames

\* A connection that some handshake has committed.
Committed(c) ==
  \/ readers[c].pc # "none"
  \/ \E p \in Procs : hs[p].pc = "save" /\ hs[p].hconn = c

\* C21: a commit is one step that closes the connection held before it, if any,
\* makes the attempt's open connection the shared handle and stores the id and key
\* of the auth_ok as the held identity; the one read loop of a connection is started
\* after its commit and never started again; and in every state a committed
\* connection that is still open is the shared handle.
C21_SingleLiveConnection ==
  /\ [](\A c \in Conns : (Committed(c) /\ connState[c] = "open") => conn = c)
  /\ [][\A p \in Procs : (hs[p].pc = "commit" /\ hs'[p].pc # "commit") =>
            /\ conn' = hs[p].hconn
            /\ connState'[conn'] = "open"
            /\ identity' = hs[p].ok
            /\ conn # None => connState'[conn] \in {"closed", "closed2"}
            /\ \A c \in Conns \ {conn} : connState'[c] = connState[c]
            /\ readers' = readers]_vars
  /\ [][\A c \in Conns :
            /\ (readers[c].pc = "none" /\ readers'[c].pc # "none") =>
                  \E p \in Procs : hs[p].pc = "save" /\ hs[p].hconn = c
            /\ readers[c].pc # "none" =>
                  (readers'[c].pc # "none" /\ readers'[c].born = readers[c].born)]_vars

\* The commit of a reconnect attempt has replaced a connection that was held and
\* open: that one is closed and the new one is the handle.
C21_Witness ==
  \E p \in Procs : /\ hs[p].pc = "save"
                   /\ hs[p].old # None
                   /\ connState[hs[p].old] = "closed"
                   /\ conn = hs[p].hconn
                   /\ connState[conn] = "open"

\* C22: when the read loop has handled an auth_ok frame with a non-empty id and has
\* saved the identity, the identity file holds the held identity.
C22_UnsolicitedAuthOK ==
  [][\A c \in Conns : (readers[c].pc = "save" /\ readers'[c].pc # "save") =>
        /\ file'.kind = "json"
        /\ file'.ID = identity'.ID
        /\ file'.Key = identity'.Key]_vars

\* A step that returns from saveIdentity, called by a commit or by the read loop.
SaveStep ==
  \/ \E c \in Conns : readers[c].pc = "save" /\ readers'[c].pc # "save"
  \/ \E p \in Procs : hs[p].pc = "save" /\ hs'[p].pc # "save"

Partial(id) == id.ID = "" \/ id.Key = ""

\* C23: the identity loaded at construction from a file with an empty field is the
\* absent identity; a save with a held identity that has an empty field leaves the
\* file as it is; and every step that changes the file writes an identity with both
\* fields non-empty, so the file is the one found at construction or holds a
\* complete identity.
C23_PersistedNeverPartial ==
  /\ ((file.kind = "json" /\ Partial(file)) => identity = NoIdentity)
  /\ [][(SaveStep /\ Partial(identity)) => file' = file]_vars
  /\ [][file' # file => (file'.kind = "json" /\ ~Partial(file') /\ SaveStep)]_vars

\* The read loop has saved while a partial identity was held: the file still holds
\* the complete identity written by the commit.
C23_Witness ==
  /\ identity = [ID |-> "w2", Key |-> ""]
  /\ \A c \in Conns : readers[c].pc # "save"
  /\ \A p \in Procs : hs[p].pc # "save"
  /\ file = FileOf([ID |-> "w1", Key |-> "k1"])

\* C24: under a peer whose frames are a complete auth_ok and one frame that is not
\* JSON or has one of the types pong, health_report_ack, delivery_ack, error,
\* system, an unknown type or no type, every frame the read loop handles either has
\* the effect of that auth_ok (the loop goes on to save the identity of the frame)
\* or changes neither the shared handle, nor the held identity, nor the identity
\* file, nor the running flag; in both cases nothing is handed to the bus and the
\* read loop goes on.
C24_DispatchFrame ==
  [][\A c \in Conns : (readers[c].pc = "read" /\ readers'[c].pc \notin {"read", "clear"}) =>
        /\ conn' = conn
        /\ running' = running
        /\ file' = file
        /\ connState' = connState
        /\ bus'.delivered = <<>>
        /\ \/ /\ readers'[c].pc = "check"
              /\ identity' = identity
           \/ /\ readers'[c].pc = "save"
              /\ identity' = [ID |-> AuthOKFrame.id, Key |-> AuthOKFrame.key]]_vars

\* The read loop of the held connection has handled a system frame that names a
\* sender: nothing was delivered, the identity and its file are those of the commit,
\* the channel is running and the loop is at its next iteration.
C24_Witness ==
  /\ peer = {AuthOKFrame, Frame(TRUE, "system", "", "", "a", "", "")}
  /\ bus.type = "system"
  /\ bus.from = "a"
  /\ bus.delivered = <<>>
  /\ running
  /\ conn # None
  /\ connState[conn] = "open"
  /\ readers[conn].pc = "check"
  /\ identity = [ID |-> "w1", Key |-> "k1"]
  /\ file = FileOf(identity)

\* C25, as stated: the ping loop reports nothing while no connection is held, and a
\* ping is written on the connection that is the shared handle, also when the
\* handle is cleared or replaced between the loop's check and its write.
C25_PingOnHeldConnection ==
  \A e \in Epochs :
    /\ ping[e].last # "not connected"
    /\ ping[e].pc = "writing" => ping[e].wconn = conn

\* C25, amended: a tick that finds no connection held writes nothing and reports
\* nothing; a tick that finds one calls sendJSON once, which looks the handle up
\* again: with none held it writes nothing and the tick ends with the error "not
\* connected", with one held it makes one write attempt, on the connection found by
\* that lookup, which succeeds only on an open connection.  No step of the loop
\* changes the shared handle, a connection or the running flag; whatever the
\* outcome of a tick the loop goes back to its select, and it ends only when the
\* context it waits on is cancelled.
C25_PingLoop ==
  /\ [](\A e \in Epochs : ping[e].pc \in {"write", "writing"} => ping[e].wconn # None)
  /\ [][\A e \in Epochs : ping'[e] # ping[e] =>
          /\ conn' = conn /\ connState' = connState /\ running' = running
          /\ (ping[e].pc = "select" /\ ping'[e].pc # "exited") =>
                IF conn = None
                THEN /\ ping'[e].pc = "select"
                     /\ ping'[e].last = "skip" /\ ~ping'[e].warned
                     /\ writeMu' = writeMu
                ELSE ping'[e].pc = "send"
          /\ ping[e].pc = "send" =>
                IF conn = None
                THEN /\ ping'[e].pc = "select"
                     /\ ping'[e].last = "not connected"
                     /\ writeMu' = writeMu
                ELSE ping'[e].pc = "write" /\ ping'[e].wconn = conn
          /\ ping[e].pc = "write" =>
                (ping'[e].pc = "writing" /\ ping'[e].wconn = ping[e].wconn)
          /\ ping[e].pc = "writing" =>
                /\ ping'[e].pc = "select"
                /\ ping'[e].last \in {"sent", "write failed"}
                /\ ping'[e].last = "sent" => connState[ping[e].wconn] = "open"
          /\ ping'[e].pc = "exited" =>
                (ping[e].pc = "select" /\ ping[e].w \in cancelled)]_vars

\* The handle was cleared between the check of a tick and the lookup of sendJSON:
\* the tick ended with "not connected", logged as a warning, and the loop is back
\* at its select with the channel running.
C25_Witness ==
  \E e \in Epochs : /\ ping[e].pc = "select"
                    /\ ping[e].last = "not connected"
                    /\ ping[e].warned
                    /\ running

\* C26: a handshake attempt begins only in the step of Start that follows the
\* validation, or in a tick of a reconnect loop that finds no connection held; a
\* tick that finds a connection held begins none; no step of a read loop or of a
\* ping loop begins one; and when an attempt of a reconnect loop has returned,
\* failed or not, the loop is back at its select, and the running flag, the caller
\* of Start and Stop, the caller of Send and the shared handle are as before.
C26_ReconnectSoleRecovery ==
  [][/\ \A p \in Procs : (hs[p].pc = "idle" /\ hs'[p].pc # "idle") =>
           /\ hs'[p].pc = "dial"
           /\ \/ p = StartProc /\ caller.pc = "idle" /\ caller'.pc = "connect"
              \/ /\ p \in Epochs
                 /\ reconn[p].pc = "select" /\ reconn'[p].pc = "connect"
                 /\ conn = None
     /\ \A e \in Epochs :
           (reconn[e].pc = "select" /\ reconn'[e] # reconn[e] /\ reconn'[e].pc # "exited") =>
              IF conn = None
              THEN reconn'[e].pc = "connect" /\ hs'[e].pc = "dial"
              ELSE reconn'[e].pc = "select" /\ hs' = hs
     /\ \A e \in Epochs : (reconn[e].pc = "connect" /\ reconn'[e].pc # "connect") =>
           /\ hs[e].pc = "ret"
           /\ reconn'[e].pc = "select"
           /\ running' = running /\ caller' = caller /\ sender' = sender /\ conn' = conn
     /\ (ping' # ping \/ \E c \in Conns : readers[c].pc # "none" /\ readers'[c] # readers[c]) =>
           \A p \in Procs : hs[p].pc = "idle" => hs'[p].pc = "idle"]_vars

\* The handshake of Start failed, Start returned success, and an attempt of the
\* reconnect loop has failed too: the channel is running, no connection is held and
\* the loop is about to go back to its select.
C26_Witness ==
  \E e \in Epochs : /\ reconn[e].pc = "connect"
                    /\ hs[e].pc = "ret"
                    /\ hs[e].res # ""
                    /\ caller.hsFailed
                    /\ caller.startRes = "ok"
                    /\ caller.lastCall = "Start"
                    /\ running
                    /\ conn = None

\* C27: while Stop is the last call that has returned and no Start is under way, no
\* connection is held.
C27_NoConnAfterStop ==
  (caller.lastCall = "Stop" /\ caller.pc = "idle") => conn = None

\* C28: every write of a frame by Send or by a ping loop is made on a connection
\* that is open when the write is made.
C28_NoUseAfterClose ==
  [][/\ (sender.pc = "writing" /\ sender'.pc # "writing") =>
          connState[sender.wconn] = "open"
     /\ \A e \in Epochs : (ping[e].pc = "writing" /\ ping'[e].pc # "writing") =>
          connState[ping[e].wconn] = "open"]_vars

=============================================================================
